---- MODULE Spec2Model ----
(***************************************************************************)
(* Model of the Atlona telnet broker (backend/atlona_broker.py).           *)
(*                                                                         *)
(* The broker is a single asyncio event loop: tasks interleave only at     *)
(* their await points, so every action below is the code that runs between *)
(* two consecutive awaits of one task.  The tasks are the startup          *)
(* coroutine (start_server), one handle_client task per accepted client    *)
(* and the reconnect() tasks made by asyncio.create_task.                  *)
(*                                                                         *)
(* The program's code is written as functions from a state record to a     *)
(* state record (connect, disconnect, reconnect, send_command,             *)
(* handle_client and their continuations), composed the way the coroutines *)
(* call each other; an action applies one such function to the current     *)
(* state.  The upstream device is the environment: it answers commands     *)
(* (possibly late, possibly never), emits unsolicited bytes, drops the     *)
(* link and refuses or ignores connection attempts.                        *)
(***************************************************************************)
EXTENDS Integers, Sequences, FiniteSets, TLC

\* ----------------------------------------------------------------- bounds
NClients == 2
NReconnectTasks == 1
MaxCmds == 1
MaxAttempts == 2
MaxUnsolicited == 1
\* The bounds of the specification of concurrent reconnect loops.
BackoffTasks == 2
BackoffAttempts == 7
\* The commands a client forwards in the specification of command order.
OrderCmds == 2
\* The connect attempts in the specification of concurrent reconnect loops
\* and inline connects.
RaceAttempts == 3

\* ------------------------------------------------------ program constants
MinReconnectDelay == 1
MaxReconnectDelay == 30
MaxWaitCount == 30

\* ------------------------------------------------------------------ tasks
Startup == 0
Clients == 1..NClients
ReconnectTasks ==
    (NClients + 1)..
        (NClients + IF NReconnectTasks < BackoffTasks THEN BackoffTasks
                                                    ELSE NReconnectTasks)
\* The task that runs shutdown() on a termination signal.
ShutdownTask == -2
Tasks == {Startup, ShutdownTask} \cup Clients \cup ReconnectTasks
NoTask == -1
None == 0

\* ------------------------------------------------------------------- text
\* A line of text is a sequence of one-character strings.
LowerCase == <<"a","b","c","d","e","f","g","h","i","j","k","l","m",
               "n","o","p","q","r","s","t","u","v","w","x","y","z">>
UpperCase == <<"A","B","C","D","E","F","G","H","I","J","K","L","M",
               "N","O","P","Q","R","S","T","U","V","W","X","Y","Z">>
Whitespace == {" ", "\n", "\r", "\t"}

UpperChar(ch) ==
    IF \E i \in 1..26 : LowerCase[i] = ch
    THEN UpperCase[CHOOSE i \in 1..26 : LowerCase[i] = ch]
    ELSE ch

\* str.upper()
Upper(s) == [i \in 1..Len(s) |-> UpperChar(s[i])]

RECURSIVE LStrip(_)
LStrip(s) ==
    IF s # <<>> /\ Head(s) \in Whitespace THEN LStrip(Tail(s)) ELSE s

RECURSIVE RStrip(_)
RStrip(s) ==
    IF s # <<>> /\ s[Len(s)] \in Whitespace
    THEN RStrip(SubSeq(s, 1, Len(s) - 1))
    ELSE s

\* str.strip()
Strip(s) == RStrip(LStrip(s))

\* str.startswith()
StartsWith(s, p) == Len(s) >= Len(p) /\ SubSeq(s, 1, Len(p)) = p

BROKER_PREFIX    == <<"B","R","O","K","E","R",":">>
BROKER_STATUS    == BROKER_PREFIX \o <<"S","T","A","T","U","S">>
BROKER_RECONNECT == BROKER_PREFIX \o <<"R","E","C","O","N","N","E","C","T">>
BROKER_WAIT      == BROKER_PREFIX \o <<"W","A","I","T">>

\* What a client's socket delivers in one read: the lines the clients send.
STATUS_LINE    == BROKER_STATUS \o <<"\n">>
status_line    == <<"b","r","o","k","e","r",":","s","t","a","t","u","s","\n">>
RECONNECT_LINE == BROKER_RECONNECT \o <<"\n">>
Wait_line      == <<"B","r","o","k","e","r",":","W","a","i","t","\r","\n">>
foo_line       == <<"b","r","o","k","e","r",":","f","o","o","\n">>
Status_line    == <<"S","t","a","t","u","s","\n">>
blank_line     == <<" ","\r","\n">>
\* Two command lines that reach the broker in one read.
two_lines      == Status_line \o Status_line

ClientData ==
    { STATUS_LINE, status_line, RECONNECT_LINE, foo_line, Status_line,
      blank_line }

\* ----------------------------------------------------------------- errors
E_NotConnected == "Not connected to Atlona"
E_ConnTimeout  == "Connection timeout"
E_Refused      == "Connect call failed"
E_ConnLost     == "Connection lost"
E_NoneWrite    == "'NoneType' object has no attribute 'write'"
E_NoneRead     == "'NoneType' object has no attribute 'read'"
NoError        == "None"

\* Bytes of the device: a reply to the n-th forwarded command of client c is
\* the token <<c, n>>; bytes the device sends on its own are Unsolicited.
Unsolicited == <<0, 0>>

VARIABLES
    pc,               \* where each task is suspended
    command,          \* handle_client: the command being forwarded
    seq,              \* number of commands each client has forwarded
    wait_count,       \* handle_client: BROKER:WAIT's counter
    pending_read,     \* send_command: the reader its response read waits on
    reply,            \* the line the last step wrote to a client's socket
    command_lock,     \* self._command_lock
    connection_lock,  \* self._connection_lock
    reader,           \* self._reader
    writer,           \* self._writer
    connected,        \* self._connected
    connecting,       \* self._connecting
    reconnect_delay,  \* self._reconnect_delay
    stats,            \* self._stats
    active_clients,   \* self._active_clients
    listening,        \* the TCP server is accepting
    link,             \* device: the current connection is alive
    buf,              \* bytes received on the current reader, not yet read
    owed,             \* device: commands received, reply not sent
    conns,            \* transports opened and not closed
    bound             \* the bounds of the run: attempts, tasks, commands

vars == <<pc, command, seq, wait_count, pending_read, reply, command_lock,
          connection_lock, reader, writer, connected, connecting,
          reconnect_delay, stats, active_clients, listening, link,
          buf, owed, conns, bound>>

NoReply == [kind |-> "none", body |-> <<>>]
NoReplies == [c \in Clients |-> NoReply]

\* The current state as a record; inb says the step stayed within the bounds.
\* reply is an output: it holds what the step being taken writes.
St ==
    [ inb |-> TRUE, pc |-> pc, command |-> command, seq |-> seq,
      wait_count |-> wait_count, pending_read |-> pending_read,
      reply |-> NoReplies, command_lock |-> command_lock,
      connection_lock |-> connection_lock, reader |-> reader,
      writer |-> writer, connected |-> connected, connecting |-> connecting,
      reconnect_delay |-> reconnect_delay, stats |-> stats,
      active_clients |-> active_clients, listening |-> listening,
      link |-> link, buf |-> buf, owed |-> owed,
      conns |-> conns, bound |-> bound ]

Apply(s) ==
    /\ s.inb
    /\ pc' = s.pc
    /\ command' = s.command
    /\ seq' = s.seq
    /\ wait_count' = s.wait_count
    /\ pending_read' = s.pending_read
    /\ reply' = s.reply
    /\ command_lock' = s.command_lock
    /\ connection_lock' = s.connection_lock
    /\ reader' = s.reader
    /\ writer' = s.writer
    /\ connected' = s.connected
    /\ connecting' = s.connecting
    /\ reconnect_delay' = s.reconnect_delay
    /\ stats' = s.stats
    /\ active_clients' = s.active_clients
    /\ listening' = s.listening
    /\ link' = s.link
    /\ buf' = s.buf
    /\ owed' = s.owed
    /\ conns' = s.conns
    /\ bound' = s.bound

\* AtlonaBroker.__init__, for a run within the bounds b.
InitWith(b) ==
    /\ pc = [t \in Tasks |->
                IF t = Startup THEN "start"
                ELSE IF t = ShutdownTask THEN "off"
                ELSE IF t \in Clients THEN "closed" ELSE "free"]
    /\ command = [c \in Clients |-> <<>>]
    /\ seq = [c \in Clients |-> 0]
    /\ wait_count = [c \in Clients |-> 0]
    /\ pending_read = [c \in Clients |-> None]
    /\ reply = NoReplies
    /\ command_lock = [owner |-> NoTask, waiters |-> <<>>]
    /\ connection_lock = [owner |-> NoTask, waiters |-> <<>>]
    /\ reader = None
    /\ writer = None
    /\ connected = FALSE
    /\ connecting = FALSE
    /\ reconnect_delay = MinReconnectDelay
    /\ stats = [ connected |-> FALSE, connection_attempts |-> 0,
                 successful_connections |-> 0, commands_processed |-> 0,
                 commands_failed |-> 0, active_clients |-> 0,
                 last_command_at |-> FALSE, last_error |-> NoError ]
    /\ active_clients = {}
    /\ listening = FALSE
    /\ link = FALSE
    /\ buf = <<>>
    /\ owed = {}
    /\ conns = {}
    /\ bound = b

Init ==
    InitWith([attempts |-> MaxAttempts, tasks |-> NReconnectTasks,
              cmds |-> MaxCmds])


\* ------------------------------------------------------------ asyncio.Lock
\* acquire() returns at once on a free lock and queues the caller otherwise;
\* release() hands the lock to the first waiter.
LockFree(lock) == lock.owner = NoTask

Acquire(lock, t) == [lock EXCEPT !.owner = t]

Enqueue(lock, t) == [lock EXCEPT !.waiters = Append(@, t)]

Release(lock) ==
    IF lock.waiters = <<>>
    THEN [lock EXCEPT !.owner = NoTask]
    ELSE [owner |-> Head(lock.waiters), waiters |-> Tail(lock.waiters)]

\* A cancelled task leaves the lock: it gives it up if it has it (or was
\* handed it) and leaves the queue otherwise.
Leave(lock, t) ==
    IF lock.owner = t THEN Release(lock)
    ELSE [lock EXCEPT !.waiters = SelectSeq(@, LAMBDA x : x # t)]

Min(a, b) == IF a < b THEN a ELSE b

\* ------------------------------------------------------------ AtlonaBroker
is_connected(s) == s.connected /\ s.writer # None

\* asyncio.create_task(self.reconnect()): the new task runs later.
create_reconnect_task(s) ==
    LET free == {r \in ReconnectTasks :
                    r <= NClients + s.bound.tasks /\ s.pc[r] = "free"} IN
    IF free # {}
    THEN [s EXCEPT !.pc[CHOOSE r \in free : \A q \in free : r <= q] = "new"]
    ELSE [s EXCEPT !.inb = FALSE]

\* handle_client, after a reply is written: back to reader.read().
client_reply(s, c, kind, body) ==
    [s EXCEPT !.reply[c] = [kind |-> kind, body |-> body],
              !.command[c] = <<>>,
              !.pending_read[c] = None,
              !.pc[c] = "idle"]

\* send_command returns (ok, response): the command lock is released and
\* handle_client writes the reply line.
send_return(s, c, ok, response) ==
    client_reply([s EXCEPT !.command_lock = Release(@)], c,
                 IF ok THEN "raw" ELSE "error", response)

\* Mutant: the success path does not count the command.
send_ok_uncounted(s, c, response) ==
    send_return([s EXCEPT !.stats.last_command_at = TRUE], c, TRUE, response)

\* send_command's success path.
send_ok(s, c, response) ==
    send_return([s EXCEPT !.stats.commands_processed = @ + 1,
                          !.stats.last_command_at = TRUE],
                c, TRUE, response)

\* Mutant: the failure path forgets to create the reconnect task.
send_fail_no_reconnect(s, c, err) ==
    send_return([s EXCEPT !.stats.commands_failed = @ + 1,
                          !.stats.last_error = err],
                c, FALSE, err)

\* Mutant: the failure path records nothing of the error.
send_fail_silent(s, c, err) ==
    send_return(create_reconnect_task(s), c, FALSE, err)

\* send_command's except Exception path.
send_fail(s, c, err) ==
    send_return(create_reconnect_task(
                    [s EXCEPT !.stats.commands_failed = @ + 1,
                              !.stats.last_error = err]),
                c, FALSE, err)

\* send_command: self._reader._buffer.clear(), then the first drain read.
drain_begin(s, c) ==
    [s EXCEPT !.buf = IF s.reader # None THEN <<>> ELSE @,
              !.pc[c] = "drain"]

\* send_command: the command is written and drained to the device.
\* sent says whether a write on a dead link goes unnoticed.
write_command(s, c, sent) ==
    IF s.writer = None THEN send_fail(s, c, E_NoneWrite)
    ELSE IF s.writer \notin s.conns THEN send_fail(s, c, E_ConnLost)
    ELSE IF ~s.link
         THEN IF sent THEN [s EXCEPT !.command[c] = <<>>, !.pc[c] = "settle"]
                      ELSE send_fail(s, c, E_ConnLost)
    ELSE [s EXCEPT !.owed = @ \cup {<<c, s.seq[c]>>},
                   !.command[c] = <<>>, !.pc[c] = "settle"]

\* Mutant: the drain loop never reads; the command is written at once.
drain_read_skipped(s, c, sent) == write_command(s, c, sent)

\* send_command: one read of the drain loop returns or times out.
drain_read(s, c, sent) ==
    IF s.reader # None /\ s.buf # <<>>
    THEN [s EXCEPT !.buf = <<>>, !.pc[c] = "drain_again"]
    ELSE write_command(s, c, sent)

\* send_command: the settle delay is over and the response read starts.
settle_done(s, c) ==
    IF s.reader = None THEN send_fail(s, c, E_NoneRead)
    ELSE [s EXCEPT !.pending_read[c] = s.reader, !.pc[c] = "reading"]

\* Mutant: a read timeout is handled as an error.
response_read_timeout_fails(s, c, outcome) ==
    IF outcome \in {"error", "timeout"} THEN send_fail(s, c, E_ConnLost)
    ELSE IF outcome = "data"
         THEN send_ok([s EXCEPT !.buf = <<>>], c, s.buf)
    ELSE send_ok(s, c, <<>>)

\* send_command: the response read returns data or EOF, times out or raises.
response_read(s, c, outcome) ==
    IF outcome = "error" THEN send_fail(s, c, E_ConnLost)
    ELSE IF outcome = "data"
         THEN send_ok([s EXCEPT !.buf = <<>>], c, s.buf)
    ELSE send_ok(s, c, <<>>)

\* reconnect: the while loop's test and the sleep before the next attempt.
reconnect_loop(s, r) ==
    IF ~s.connected THEN [s EXCEPT !.pc[r] = "rc_sleep"]
                    ELSE [s EXCEPT !.pc[r] = "free"]

\* Mutant: send_command does not look at connect()'s result.
connect_return_unchecked(s, t, ok) ==
    IF t = Startup THEN [s EXCEPT !.listening = TRUE, !.pc[t] = "serving"]
    ELSE IF t \in Clients THEN drain_begin(s, t)
    ELSE IF ok THEN [s EXCEPT !.pc[t] = "free"]
    ELSE reconnect_loop(
             [s EXCEPT !.reconnect_delay = Min(@ * 2, MaxReconnectDelay)], t)

\* Mutant: start_server gives up when its initial connect() fails.
connect_return_startup_exits(s, t, ok) ==
    IF t = Startup
    THEN IF ok THEN [s EXCEPT !.listening = TRUE, !.pc[t] = "serving"]
               ELSE [s EXCEPT !.pc[t] = "failed"]
    ELSE IF t \in Clients
         THEN IF ok THEN drain_begin(s, t)
                    ELSE send_return(s, t, FALSE, E_NotConnected)
    ELSE IF ok THEN [s EXCEPT !.pc[t] = "free"]
    ELSE reconnect_loop(
             [s EXCEPT !.reconnect_delay = Min(@ * 2, MaxReconnectDelay)], t)

\* Mutant: reconnect leaves its loop after any connect(), failed or not.
connect_return_breaks(s, t, ok) ==
    IF t = Startup THEN [s EXCEPT !.listening = TRUE, !.pc[t] = "serving"]
    ELSE IF t \in Clients
         THEN IF ok THEN drain_begin(s, t)
                    ELSE send_return(s, t, FALSE, E_NotConnected)
    ELSE [s EXCEPT !.pc[t] = "free"]

\* Mutant: the backoff doubles with no maximum.
connect_return_uncapped(s, t, ok) ==
    IF t = Startup THEN [s EXCEPT !.listening = TRUE, !.pc[t] = "serving"]
    ELSE IF t \in Clients
         THEN IF ok THEN drain_begin(s, t)
                    ELSE send_return(s, t, FALSE, E_NotConnected)
    ELSE IF ok THEN [s EXCEPT !.pc[t] = "free"]
    ELSE reconnect_loop([s EXCEPT !.reconnect_delay = @ * 2], t)

\* The caller of connect() goes on with its result.
connect_return(s, t, ok) ==
    IF t = Startup THEN [s EXCEPT !.listening = TRUE, !.pc[t] = "serving"]
    ELSE IF t \in Clients
         THEN IF ok THEN drain_begin(s, t)
                    ELSE send_return(s, t, FALSE, E_NotConnected)
    ELSE IF ok THEN [s EXCEPT !.pc[t] = "free"]
    ELSE reconnect_loop(
             [s EXCEPT !.reconnect_delay = Min(@ * 2, MaxReconnectDelay)], t)

\* Mutant: an attempt is not counted when it begins.
connect_locked_uncounted(s, t) ==
    IF s.connected
    THEN connect_return([s EXCEPT !.connection_lock = Release(@)], t, TRUE)
    ELSE IF s.connecting
    THEN connect_return([s EXCEPT !.connection_lock = Release(@)], t, FALSE)
    ELSE [s EXCEPT !.connecting = TRUE,
                   !.inb = @ /\ s.stats.successful_connections < s.bound.attempts,
                   !.pc[t] = "conn_open"]

\* connect, holding the connection lock.
connect_locked(s, t) ==
    IF s.connected
    THEN connect_return([s EXCEPT !.connection_lock = Release(@)], t, TRUE)
    ELSE IF s.connecting
    THEN connect_return([s EXCEPT !.connection_lock = Release(@)], t, FALSE)
    ELSE [s EXCEPT !.connecting = TRUE,
                   !.stats.connection_attempts = @ + 1,
                   !.inb = @ /\ s.stats.connection_attempts < s.bound.attempts,
                   !.pc[t] = "conn_open"]

\* Mutant: connect runs its body without taking the connection lock.
connect_unlocked(s, t) == connect_locked(s, t)

connect(s, t) ==
    IF LockFree(s.connection_lock)
    THEN connect_locked([s EXCEPT !.connection_lock = Acquire(@, t)], t)
    ELSE [s EXCEPT !.connection_lock = Enqueue(@, t), !.pc[t] = "conn_acq"]

\* connect: asyncio.open_connection returns, times out or raises.
open_connection_done(s, t, outcome) ==
    IF outcome = "ok"
    THEN [s EXCEPT !.reader = s.stats.connection_attempts,
                   !.writer = s.stats.connection_attempts,
                   !.conns = @ \cup {s.stats.connection_attempts},
                   !.link = TRUE, !.buf = <<>>, !.owed = {},
                   !.pc[t] = "conn_banner"]
    ELSE connect_return(
             [s EXCEPT !.stats.last_error =
                           IF outcome = "timeout" THEN E_ConnTimeout
                                                  ELSE E_Refused,
                       !.connecting = FALSE,
                       !.connection_lock = Release(@)],
             t, FALSE)

\* Mutant: a successful connect sets the flag and not the statistics.
banner_read_done_stats_stale(s, t, outcome) ==
    IF outcome = "ok"
    THEN connect_return(
             [s EXCEPT !.buf = <<>>,
                       !.connected = TRUE,
                       !.stats.successful_connections = @ + 1,
                       !.reconnect_delay = MinReconnectDelay,
                       !.connecting = FALSE,
                       !.connection_lock = Release(@)],
             t, TRUE)
    ELSE connect_return(
             [s EXCEPT !.stats.last_error = E_ConnLost,
                       !.connecting = FALSE,
                       !.connection_lock = Release(@)],
             t, FALSE)

\* connect: the banner read returns or times out (ok), or raises.
banner_read_done(s, t, outcome) ==
    IF outcome = "ok"
    THEN connect_return(
             [s EXCEPT !.buf = <<>>,
                       !.connected = TRUE,
                       !.stats.connected = TRUE,
                       !.stats.successful_connections = @ + 1,
                       !.reconnect_delay = MinReconnectDelay,
                       !.connecting = FALSE,
                       !.connection_lock = Release(@)],
             t, TRUE)
    ELSE connect_return(
             [s EXCEPT !.stats.last_error = E_ConnLost,
                       !.connecting = FALSE,
                       !.connection_lock = Release(@)],
             t, FALSE)

\* CancelledError raised at the await where task t is suspended.  A client
\* in send_command's drain read loses it to the bare except around that
\* loop and goes on to its write; anywhere else the exception unwinds the
\* task: locks are released by their async with, connect's finally resets
\* the connecting flag, handle_client's finally unregisters the client.
cancelled(s, t) ==
    IF t = ShutdownTask \/ s.pc[t] \in {"closed", "free", "start", "stopped"}
    THEN s
    ELSE IF t = Startup
    THEN [s EXCEPT !.listening = FALSE, !.pc[t] = "stopped"]
    ELSE IF t \in Clients /\ s.pc[t] \in {"drain", "drain_again"}
    THEN s
    ELSE LET u == [s EXCEPT
                      !.connecting =
                          IF s.pc[t] \in {"conn_open", "conn_banner"}
                          THEN FALSE ELSE @,
                      !.connection_lock = Leave(@, t),
                      !.command_lock = Leave(@, t)]
         IN  IF t \in Clients
             THEN [u EXCEPT
                      !.active_clients = @ \ {t},
                      !.stats.active_clients =
                          Cardinality(s.active_clients \ {t}),
                      !.command[t] = <<>>,
                      !.pending_read[t] = None,
                      !.wait_count[t] = 0,
                      !.pc[t] = "closed"]
             ELSE [u EXCEPT !.pc[t] = "free"]

RECURSIVE cancel_each(_, _)
cancel_each(s, T) ==
    IF T = {} THEN s
    ELSE LET t == CHOOSE x \in T : \A y \in T : x <= y
         IN  cancel_each(cancelled(s, t), T \ {t})

\* shutdown: every task but the current one is cancelled, then gathered.
cancel_all(s) ==
    cancel_each([s EXCEPT !.pc[ShutdownTask] = "gather"],
                Tasks \ {ShutdownTask})

\* The caller of disconnect() goes on.
disconnect_return(s, t) ==
    IF t = ShutdownTask THEN cancel_all(s) ELSE reconnect_loop(s, t)

\* Mutant: disconnect clears the flags and keeps the closed handle.
disconnect_finish_keeps_handle(s, t) ==
    disconnect_return(
        [s EXCEPT !.connected = FALSE, !.stats.connected = FALSE,
                  !.link = FALSE, !.buf = <<>>, !.owed = {},
                  !.connection_lock = Release(@)],
        t)

\* disconnect: the handle and the flags are cleared, the lock released;
\* the caller (reconnect or shutdown) goes on.
disconnect_finish(s, t) ==
    disconnect_return(
        [s EXCEPT !.reader = None, !.writer = None,
                  !.connected = FALSE, !.stats.connected = FALSE,
                  !.link = FALSE, !.buf = <<>>, !.owed = {},
                  !.connection_lock = Release(@)],
        t)

\* disconnect, holding the connection lock.
disconnect_locked(s, t) ==
    IF s.writer # None
    THEN [s EXCEPT !.conns = @ \ {s.writer},
                   !.link = FALSE, !.buf = <<>>, !.owed = {},
                   !.pc[t] = "disc_closing"]
    ELSE disconnect_finish(s, t)

disconnect(s, t) ==
    IF LockFree(s.connection_lock)
    THEN disconnect_locked([s EXCEPT !.connection_lock = Acquire(@, t)], t)
    ELSE [s EXCEPT !.connection_lock = Enqueue(@, t), !.pc[t] = "disc_acq"]

\* reconnect begins with disconnect().
reconnect(s, r) == disconnect(s, r)

\* send_command, holding the command lock.
send_command_locked(s, c) ==
    IF ~is_connected(s) THEN connect(s, c) ELSE drain_begin(s, c)

\* Mutant: send_command runs its body without taking the command lock.
send_command_unlocked(s, c) == send_command_locked(s, c)

send_command(s, c) ==
    IF LockFree(s.command_lock)
    THEN send_command_locked([s EXCEPT !.command_lock = Acquire(@, c)], c)
    ELSE [s EXCEPT !.command_lock = Enqueue(@, c), !.pc[c] = "cmd_acq"]

\* Mutant: the loop tests wait_count <= 30 and sleeps once more.
broker_wait_one_more(s, c) ==
    IF ~is_connected(s) /\ s.wait_count[c] <= MaxWaitCount
    THEN [s EXCEPT !.pc[c] = "wait_sleep"]
    ELSE client_reply(s, c,
                      IF is_connected(s) THEN "OK: Connected"
                                         ELSE "ERROR: Connection timeout",
                      <<>>)

\* Mutant: the wait loop runs under the command lock.
broker_wait_locked(s, c) ==
    IF ~is_connected(s) /\ s.wait_count[c] < MaxWaitCount
    THEN [s EXCEPT !.pc[c] = "wait_sleep",
                   !.command_lock = IF LockFree(@) \/ @.owner = c
                                    THEN Acquire(@, c) ELSE Enqueue(@, c)]
    ELSE client_reply([s EXCEPT !.command_lock =
                                    IF @.owner = c THEN Release(@) ELSE @],
                      c,
                      IF is_connected(s) THEN "OK: Connected"
                                         ELSE "ERROR: Connection timeout",
                      <<>>)

\* handle_client: BROKER:WAIT's loop and its reply.
broker_wait(s, c) ==
    IF ~is_connected(s) /\ s.wait_count[c] < MaxWaitCount
    THEN [s EXCEPT !.pc[c] = "wait_sleep"]
    ELSE client_reply(s, c,
                      IF is_connected(s) THEN "OK: Connected"
                                         ELSE "ERROR: Connection timeout",
                      <<>>)

\* Mutant: BROKER:STATUS is forwarded to the device like any command.
broker_status_forwarded(s, c) == send_command(s, c)

\* handle_client: BROKER:STATUS.
broker_status(s, c) == client_reply(s, c, "status", <<s.stats>>)

\* Mutant: BROKER:RECONNECT awaits reconnect() before it replies.
broker_reconnect_awaited(s, c) == reconnect(s, c)

\* handle_client: BROKER:RECONNECT.
broker_reconnect(s, c) ==
    client_reply(create_reconnect_task(s), c, "OK: Reconnecting", <<>>)

\* Mutant: an empty command is forwarded like any other.
dispatch_forwards_blank(s, c, data) ==
    send_command([s EXCEPT !.command[c] = Strip(data),
                           !.seq[c] = @ + 1,
                           !.inb = @ /\ s.seq[c] < s.bound.cmds], c)

\* handle_client: one read of the client's socket is dispatched.
dispatch(s, c, data) ==
    IF Strip(data) = <<>> THEN s
    ELSE IF Upper(Strip(data)) = BROKER_STATUS THEN broker_status(s, c)
    ELSE IF Upper(Strip(data)) = BROKER_RECONNECT THEN broker_reconnect(s, c)
    ELSE IF Upper(Strip(data)) = BROKER_WAIT
         THEN broker_wait([s EXCEPT !.wait_count[c] = 0], c)
    ELSE send_command([s EXCEPT !.command[c] = Strip(data),
                                !.seq[c] = @ + 1,
                                !.inb = @ /\ s.seq[c] < s.bound.cmds], c)

\* handle_client: registration on accept.
client_open(s, c) ==
    [s EXCEPT !.active_clients = @ \cup {c},
              !.stats.active_clients = Cardinality(s.active_clients \cup {c}),
              !.wait_count[c] = 0,
              !.pc[c] = "idle"]

\* Mutant: the finally block leaves the statistics as they were.
client_close_uncounted(s, c) ==
    [s EXCEPT !.active_clients = @ \ {c},
              !.wait_count[c] = 0,
              !.pc[c] = "closed"]

\* Mutant: a session that ends cancels the command in flight.
client_close_cancels_command(s, c) ==
    [s EXCEPT !.active_clients = @ \ {c},
              !.stats.active_clients = Cardinality(s.active_clients \ {c}),
              !.wait_count[c] = 0,
              !.command_lock = [owner |-> NoTask, waiters |-> <<>>],
              !.pc[c] = "closed"]

\* handle_client: the finally block.
client_close(s, c) ==
    [s EXCEPT !.active_clients = @ \ {c},
              !.stats.active_clients = Cardinality(s.active_clients \ {c}),
              !.wait_count[c] = 0,
              !.pc[c] = "closed"]


\* ---------------------------------------------------------------- actions
\* start_server: the initial connect().
StartServer ==
    /\ pc[Startup] = "start"
    /\ Apply(connect(St, Startup))

\* A task queued on the connection lock in connect() is given the lock.
ConnectLockGranted(t) ==
    /\ pc[t] = "conn_acq"
    /\ connection_lock.owner = t
    /\ Apply(connect_locked(St, t))

OpenConnectionDone(t, outcome) ==
    /\ pc[t] = "conn_open"
    /\ Apply(open_connection_done(St, t, outcome))

BannerReadDone(t, outcome) ==
    /\ pc[t] = "conn_banner"
    /\ outcome = "error" => ~link
    /\ Apply(banner_read_done(St, t, outcome))

\* A task queued on the connection lock in disconnect() is given the lock.
DisconnectLockGranted(t) ==
    /\ pc[t] = "disc_acq"
    /\ connection_lock.owner = t
    /\ Apply(disconnect_locked(St, t))

\* disconnect: writer.wait_closed() returns.
WaitClosedDone(t) ==
    /\ pc[t] = "disc_closing"
    /\ Apply(disconnect_finish(St, t))

\* A reconnect task made by create_task starts to run.
ReconnectStart(r) ==
    /\ pc[r] = "new"
    /\ Apply(reconnect(St, r))

\* reconnect: asyncio.sleep(self._reconnect_delay) returns; connect().
ReconnectSleepDone(r) ==
    /\ pc[r] = "rc_sleep"
    /\ Apply(connect(St, r))

\* The server accepts a client: handle_client starts.
Accept(c) ==
    /\ listening
    /\ pc[c] = "closed"
    /\ Apply(client_open(St, c))

\* handle_client: reader.read() returns data.
ClientRead(c, data) ==
    /\ pc[c] = "idle"
    /\ Apply(dispatch(St, c, data))

\* handle_client: reader.read() returns EOF, times out or raises, or the
\* drain of the reply just written raises on a socket the client has closed.
ClientGone(c) ==
    /\ pc[c] = "idle"
    /\ Apply(client_close(St, c))

\* A client queued on the command lock is given the lock.
CommandLockGranted(c) ==
    /\ pc[c] = "cmd_acq"
    /\ command_lock.owner = c
    /\ Apply(send_command_locked(St, c))

DrainRead(c, sent) ==
    /\ pc[c] \in {"drain", "drain_again"}
    /\ ~sent => (reader # None /\ buf = <<>> /\ writer \in conns /\ ~link)
    /\ Apply(drain_read(St, c, sent))

SettleDone(c) ==
    /\ pc[c] = "settle"
    /\ Apply(settle_done(St, c))

\* The response read ends: with the bytes received; at its timeout; with EOF
\* once the transport is closed or the device has gone; with an error on a
\* broken link.
ResponseRead(c, outcome) ==
    /\ pc[c] = "reading"
    /\ LET cur == pending_read[c] = reader /\ reader \in conns IN
       CASE outcome = "data"    -> cur /\ buf # <<>>
         [] outcome = "timeout" -> pending_read[c] \in conns /\ (cur => buf = <<>>)
         [] outcome = "eof"     -> ~cur \/ (buf = <<>> /\ ~link)
         [] outcome = "error"   -> pending_read[c] \in conns
                                   /\ (cur => (buf = <<>> /\ ~link))
    /\ Apply(response_read(St, c, outcome))

\* handle_client, BROKER:WAIT: asyncio.sleep(1) returns.
WaitSleepDone(c) ==
    /\ pc[c] = "wait_sleep"
    /\ Apply(broker_wait([St EXCEPT !.wait_count[c] = @ + 1], c))

\* A termination signal: the handler's shutdown() task starts with
\* disconnect().
Signal ==
    /\ pc[ShutdownTask] = "off"
    /\ pc[Startup] # "start"
    /\ Apply(disconnect(St, ShutdownTask))

\* shutdown: the gather of the cancelled tasks returns; loop.stop().
ShutdownDone ==
    /\ pc[ShutdownTask] = "gather"
    /\ \A c \in Clients : pc[c] = "closed"
    /\ Apply([St EXCEPT !.pc[ShutdownTask] = "stopped"])

\* ----------------------------------------------------------------- device
HasLink == writer # None /\ writer \in conns /\ link

DeviceReply(tok) ==
    /\ HasLink
    /\ tok \in owed
    /\ buf' = Append(buf, tok)
    /\ owed' = owed \ {tok}
    /\ reply' = NoReplies
    /\ UNCHANGED <<pc, command, seq, wait_count, pending_read,
                   command_lock, connection_lock, reader, writer, connected,
                   connecting, reconnect_delay, stats, active_clients,
                   listening, link, conns, bound>>

DeviceUnsolicited ==
    /\ HasLink
    /\ Cardinality({i \in 1..Len(buf) : buf[i] = Unsolicited}) < MaxUnsolicited
    /\ buf' = Append(buf, Unsolicited)
    /\ reply' = NoReplies
    /\ UNCHANGED <<pc, command, seq, wait_count, pending_read,
                   command_lock, connection_lock, reader, writer, connected,
                   connecting, reconnect_delay, stats, active_clients,
                   listening, link, owed, conns, bound>>

\* The connection to the device breaks.
LinkDrop ==
    /\ HasLink
    /\ link' = FALSE
    /\ owed' = {}
    /\ reply' = NoReplies
    /\ UNCHANGED <<pc, command, seq, wait_count, pending_read,
                   command_lock, connection_lock, reader, writer, connected,
                   connecting, reconnect_delay, stats, active_clients,
                   listening, buf, conns, bound>>

Tokens ==
    {<<c, n>> : c \in Clients,
                n \in 1..(IF MaxCmds < OrderCmds THEN OrderCmds ELSE MaxCmds)}

\* The steps of connect, disconnect and reconnect.
ConnectNext ==
    \/ StartServer
    \/ \E t \in Tasks : ConnectLockGranted(t)
    \/ \E t \in Tasks, o \in {"ok", "timeout", "refused"} : OpenConnectionDone(t, o)
    \/ \E t \in Tasks, o \in {"ok", "error"} : BannerReadDone(t, o)
    \/ \E r \in ReconnectTasks : DisconnectLockGranted(r)
    \/ \E r \in ReconnectTasks : WaitClosedDone(r)
    \/ \E r \in ReconnectTasks : ReconnectStart(r)
    \/ \E r \in ReconnectTasks : ReconnectSleepDone(r)

\* The steps of connect, disconnect and reconnect, and of the device.
LinkNext ==
    \/ ConnectNext
    \/ \E tok \in Tokens : DeviceReply(tok)
    \/ LinkDrop

\* The steps of a client session that forwards commands.
SessionNext ==
    \/ \E c \in Clients : Accept(c)
    \/ \E c \in Clients : ClientGone(c)
    \/ \E c \in Clients, sent \in BOOLEAN : DrainRead(c, sent)
    \/ \E c \in Clients : SettleDone(c)
    \/ \E c \in Clients, o \in {"data", "timeout", "eof", "error"} : ResponseRead(c, o)

\* Clients that send commands and the meta-commands answered at once.
Next ==
    \/ LinkNext
    \/ SessionNext
    \/ \E c \in Clients, d \in ClientData : ClientRead(c, d)
    \/ \E c \in Clients : CommandLockGranted(c)
    \/ DeviceUnsolicited

Spec == Init /\ [][Next]_vars

\* One client that sends BROKER:WAIT beside one that sends commands.
Waiter == CHOOSE c \in Clients : \A d \in Clients : c <= d

WaitNext ==
    \/ LinkNext
    \/ SessionNext
    \/ ClientRead(Waiter, Wait_line)
    \/ \E c \in Clients \ {Waiter},
          d \in {Status_line, STATUS_LINE, RECONNECT_LINE} : ClientRead(c, d)
    \/ \E c \in Clients : WaitSleepDone(c)

SpecWait == Init /\ [][WaitNext]_vars

\* The connection to the device breaks while no command is in flight.
IdleLinkDrop ==
    /\ LockFree(command_lock)
    /\ LinkDrop

\* Clients that forward commands, one line or two lines to a read, over a
\* connection that drops between commands.
DropNext ==
    \/ ConnectNext
    \/ \E tok \in Tokens : DeviceReply(tok)
    \/ IdleLinkDrop
    \/ SessionNext
    \/ \E c \in Clients, d \in {Status_line, two_lines, RECONNECT_LINE} :
          ClientRead(c, d)
    \/ \E c \in Clients : CommandLockGranted(c)

SpecDrop == Init /\ [][DropNext]_vars

\* Reconnects asked for by BROKER:RECONNECT, several at a time, with no
\* command forwarded.
BackoffNext ==
    \/ ConnectNext
    \/ \E c \in Clients : Accept(c)
    \/ \E c \in Clients : ClientGone(c)
    \/ \E c \in Clients : ClientRead(c, RECONNECT_LINE)

\* A termination signal at any moment of a run with forwarded commands and
\* BROKER:RECONNECT.
ShutdownNext ==
    \/ ConnectNext
    \/ \E tok \in Tokens : DeviceReply(tok)
    \/ SessionNext
    \/ \E c \in Clients, d \in {Status_line, RECONNECT_LINE} : ClientRead(c, d)
    \/ \E c \in Clients : CommandLockGranted(c)
    \/ Signal
    \/ DisconnectLockGranted(ShutdownTask)
    \/ WaitClosedDone(ShutdownTask)
    \/ ShutdownDone

SpecShutdown == Init /\ [][ShutdownNext]_vars

SpecBackoff ==
    /\ InitWith([attempts |-> BackoffAttempts, tasks |-> BackoffTasks,
                 cmds |-> 0])
    /\ [][BackoffNext]_vars

\* Clients that forward several commands each, over a connection that drops
\* between commands, and ask for reconnects.
OrderNext ==
    \/ ConnectNext
    \/ \E tok \in Tokens : DeviceReply(tok)
    \/ IdleLinkDrop
    \/ SessionNext
    \/ \E c \in Clients, d \in {Status_line, RECONNECT_LINE} : ClientRead(c, d)
    \/ \E c \in Clients : CommandLockGranted(c)

\* The steps the event loop takes for a client's send_command on a link that
\* stays up: each await of it returns, at the latest at its timeout.
CommandStep(c) ==
    \/ CommandLockGranted(c)
    \/ DrainRead(c, TRUE)
    \/ SettleDone(c)
    \/ \E o \in {"data", "timeout"} : ResponseRead(c, o)

\* start_server's initial connect() to a device that answers.
StartupStep ==
    \/ StartServer
    \/ OpenConnectionDone(Startup, "ok")
    \/ BannerReadDone(Startup, "ok")

\* Clients that forward commands over a link that stays up, to a device that
\* answers or not and sends bytes of its own whenever it likes.
LiveNext ==
    \/ StartupStep
    \/ \E c \in Clients : Accept(c)
    \/ \E c \in Clients : ClientGone(c)
    \/ \E c \in Clients : ClientRead(c, Status_line)
    \/ \E c \in Clients : CommandStep(c)
    \/ \E tok \in Tokens : DeviceReply(tok)
    \/ DeviceUnsolicited

\* The event loop runs every task that can run; the clients and the device
\* are under no obligation.
SpecLive ==
    /\ Init
    /\ [][LiveNext]_vars
    /\ WF_vars(StartupStep)
    /\ \A c \in Clients : WF_vars(CommandStep(c))

\* Several reconnect loops beside clients whose commands connect inline.
RaceNext ==
    \/ ConnectNext
    \/ SessionNext
    \/ \E c \in Clients, d \in {Status_line, RECONNECT_LINE} : ClientRead(c, d)
    \/ \E c \in Clients : CommandLockGranted(c)

SpecRace ==
    /\ InitWith([attempts |-> RaceAttempts, tasks |-> BackoffTasks,
                 cmds |-> MaxCmds])
    /\ [][RaceNext]_vars

SpecOrder ==
    /\ InitWith([attempts |-> MaxAttempts, tasks |-> NReconnectTasks,
                 cmds |-> OrderCmds])
    /\ [][OrderNext]_vars


\* ------------------------------------------------------------- properties
\* The positions of a client task inside send_command's locked body.
ConnectPcs == {"conn_acq", "conn_open", "conn_banner"}
DevicePcs == {"drain", "drain_again", "settle", "reading"}

InSendCommand(c) == pc[c] \in ConnectPcs \cup DevicePcs

IsConnected == is_connected(St)

RawReply(c) == reply[c].kind = "raw"

\* C1: the reply delivered to a client for a forwarded command never holds the
\* device's response to a command issued by a different client.
C1_NoCrossTalk ==
    \A c \in Clients :
        RawReply(c) =>
            \A i \in 1..Len(reply[c].body) :
                reply[c].body[i] \in Tokens => reply[c].body[i][1] = c

\* C2: at most one send_command is inside its locked body (connecting,
\* draining, writing or reading) at any instant, and it owns the command lock.
C2_OneCommandInFlight ==
    /\ Cardinality({c \in Clients : InSendCommand(c)}) <= 1
    /\ \A c \in Clients : InSendCommand(c) => command_lock.owner = c

\* C2 witness: one client is reading its response while the other has called
\* send_command and waits for the lock.
C2_Witness ==
    \E c, d \in Clients :
        /\ pc[c] = "reading"
        /\ pc[d] = "cmd_acq"
        /\ command_lock.waiters = <<d>>

C4_TimeoutIsSuccess ==
    [][\A c \in Clients :
          ResponseRead(c, "timeout") =>
              /\ reply'[c] = [kind |-> "raw", body |-> <<>>]
              /\ stats'.commands_processed = stats.commands_processed + 1
              /\ stats'.commands_failed = stats.commands_failed
              /\ stats'.last_error = stats.last_error
              /\ \A r \in ReconnectTasks : pc'[r] = pc[r]
              /\ pc'[c] = "idle"]_vars

\* C4 witness: a client was sent an empty reply while the device, on a live
\* link, still owes the reply to its command.
C4_Witness ==
    \E c \in Clients :
        /\ reply[c] = [kind |-> "raw", body |-> <<>>]
        /\ HasLink
        /\ <<c, seq[c]>> \in owed
        /\ stats.commands_processed >= 1

\* C5: a send_command that found the link not connected makes one connect()
\* call, with at most one attempt; when it fails the client is sent the error
\* in the same step, nothing was written to the device and no backoff sleep
\* was taken; it goes on to the device only when connected.
C5_SingleInlineConnect ==
    [][\A c \in Clients :
          /\ (pc[c] \in ConnectPcs /\ pc'[c] \notin ConnectPcs) =>
                \/ pc'[c] = "drain" /\ connected' /\ writer' # None
                \/ /\ pc'[c] = "idle"
                   /\ reply'[c] = [kind |-> "error", body |-> E_NotConnected]
                   /\ ~connected'
                   /\ owed' = owed
                   /\ command_lock'.owner # c
          /\ (pc[c] \in {"conn_open", "conn_banner"}) =>
                pc'[c] \notin {"conn_acq", "rc_sleep"}
          /\ (pc[c] = "conn_banner") => pc'[c] # "conn_open"
          /\ (pc[c] \in ConnectPcs /\ pc'[c] \in ConnectPcs /\ pc'[c] # pc[c])
                => stats'.connection_attempts <= stats.connection_attempts + 1]_vars

\* C5 witness: a client was sent "Not connected to Atlona" after its inline
\* connect attempt failed.
C5_Witness ==
    \E c \in Clients :
        /\ reply[c] = [kind |-> "error", body |-> E_NotConnected]
        /\ stats.connection_attempts >= 2
        /\ ~connected

\* The step of send_command in which its write or its read raises.
WriteOrReadError(c) ==
    \/ \E sent \in BOOLEAN : DrainRead(c, sent) /\ pc'[c] = "idle"
    \/ SettleDone(c) /\ pc'[c] = "idle"
    \/ ResponseRead(c, "error")

\* C6: when the write or the read of a command raises, the client is sent the
\* error text, commands_failed grows by one, a reconnect task is created and
\* is still to start when send_command has returned and released the lock.
C6_ErrorSchedulesReconnect ==
    [][\A c \in Clients :
          WriteOrReadError(c) =>
              /\ reply'[c].kind = "error"
              /\ reply'[c].body \in {E_ConnLost, E_NoneWrite, E_NoneRead}
              /\ stats'.commands_failed = stats.commands_failed + 1
              /\ stats'.last_error = reply'[c].body
              /\ \E r \in ReconnectTasks :
                    /\ pc[r] = "free" /\ pc'[r] = "new"
                    /\ \A q \in ReconnectTasks \ {r} : pc'[q] = pc[q]
              /\ pc'[c] = "idle"
              /\ command_lock'.owner # c
              /\ UNCHANGED <<connection_lock, reader, writer, connected>>]_vars

\* C6 witness: a client has its error reply while the reconnect task made for
\* it has not run yet.
C6_Witness ==
    \E c \in Clients, r \in ReconnectTasks :
        /\ reply[c] = [kind |-> "error", body |-> E_ConnLost]
        /\ pc[r] = "new"
        /\ pc[c] = "idle"

\* C7: no command written to the device starts with BROKER: in any letter
\* case: send_command is never called with such a line.
C7_ReservedPrefixNotForwarded ==
    [][\A c \in Clients :
          (pc[c] \in {"drain", "drain_again"} /\ pc'[c] = "settle" /\ link)
              => ~StartsWith(Upper(command[c]), BROKER_PREFIX)]_vars

\* C8: BROKER:STATUS is answered in the step that reads it, with the
\* statistics, leaving both locks, the connection and the device untouched.
C8_StatusIsLocal ==
    [][\A c \in Clients, d \in {STATUS_LINE, status_line} :
          ClientRead(c, d) =>
              /\ reply'[c] = [kind |-> "status", body |-> <<stats>>]
              /\ pc'[c] = "idle"
              /\ UNCHANGED <<command_lock, connection_lock, reader, writer,
                             connected, connecting, stats, link, buf, owed,
                             conns, seq, command>>
              /\ \A t \in Tasks \ {c} : pc'[t] = pc[t]]_vars

\* C8 witness: a status reply is sent while another client's command is
\* between its write and its read and a reconnect task is under way.
C8_Witness ==
    \E c, d \in Clients, r \in ReconnectTasks :
        /\ reply[c].kind = "status"
        /\ pc[d] \in {"settle", "reading"}
        /\ command_lock.owner = d
        /\ pc[r] \notin {"free", "new"}

\* C9: each wake-up of BROKER:WAIT counts one sleep, never more than 30; it
\* replies OK as soon as the link is connected at a wake-up, replies
\* "ERROR: Connection timeout" at the 30th wake-up if still not connected,
\* and sleeps again otherwise.
C9_WaitPolls ==
    [][\A c \in Clients :
          WaitSleepDone(c) =>
              /\ wait_count'[c] = wait_count[c] + 1
              /\ wait_count'[c] <= MaxWaitCount
              /\ IF IsConnected
                 THEN reply'[c].kind = "OK: Connected" /\ pc'[c] = "idle"
                 ELSE IF wait_count'[c] = MaxWaitCount
                 THEN /\ reply'[c].kind = "ERROR: Connection timeout"
                      /\ pc'[c] = "idle"
                 ELSE reply'[c] = NoReply /\ pc'[c] = "wait_sleep"]_vars

\* C9 witness: the waiting client is told OK after at least one sleep, the
\* link having been connected by another task meanwhile.
C9_Witness ==
    \E c \in Clients :
        /\ reply[c].kind = "OK: Connected"
        /\ wait_count[c] >= 1
        /\ stats.successful_connections >= 1

\* C10: a session sleeping in BROKER:WAIT owns neither lock and queues on
\* neither.
C10_WaitHoldsNoLock ==
    \A c \in Clients :
        pc[c] = "wait_sleep" =>
            /\ command_lock.owner # c
            /\ connection_lock.owner # c
            /\ \A i \in 1..Len(command_lock.waiters) : command_lock.waiters[i] # c
            /\ \A i \in 1..Len(connection_lock.waiters) : connection_lock.waiters[i] # c

\* C10 witness: while one client sleeps in BROKER:WAIT, another client's
\* forwarded command is answered with the device's response.
C10_Witness ==
    \E c, d \in Clients :
        /\ pc[c] = "wait_sleep"
        /\ wait_count[c] >= 1
        /\ RawReply(d)
        /\ reply[d].body = <<<<d, seq[d]>>>>

\* C11: BROKER:RECONNECT is answered "OK: Reconnecting" in the step that reads
\* it: a reconnect task is created and has not started, and the connection,
\* the locks and the statistics are as they were, whatever the device does.
C11_ReconnectAcknowledged ==
    [][\A c \in Clients :
          ClientRead(c, RECONNECT_LINE) =>
              /\ reply'[c] = [kind |-> "OK: Reconnecting", body |-> <<>>]
              /\ pc'[c] = "idle"
              /\ \E r \in ReconnectTasks :
                    /\ pc[r] = "free" /\ pc'[r] = "new"
                    /\ \A t \in Tasks \ {r, c} : pc'[t] = pc[t]
              /\ UNCHANGED <<command_lock, connection_lock, reader, writer,
                             connected, connecting, reconnect_delay, stats,
                             link, conns>>]_vars

\* C11 witness: the acknowledgement is sent while the device has never been
\* reached and the reconnect task has not run.
C11_Witness ==
    \E c \in Clients, r \in ReconnectTasks :
        /\ reply[c].kind = "OK: Reconnecting"
        /\ pc[r] = "new"
        /\ ~connected
        /\ stats.successful_connections = 0

\* C12: every non-empty line a client sends is dispatched as one command of
\* its own: a command never holds more than one line.
C12_OneCommandPerLine ==
    \A c \in Clients :
        \A i \in 1..Len(command[c]) : command[c][i] # "\n"

\* C13: a read that is empty after stripping sends no reply and changes
\* nothing: no lock is taken or queued on, nothing reaches the device, no
\* counter moves and the session is back at its read.
C13_EmptyIgnored ==
    [][\A c \in Clients :
          ClientRead(c, blank_line) =>
              /\ reply' = NoReplies
              /\ pc' = pc /\ pc'[c] = "idle"
              /\ UNCHANGED <<command, seq, wait_count, pending_read,
                             command_lock, connection_lock, reader, writer,
                             connected, connecting, reconnect_delay, stats,
                             active_clients, listening, link, buf, owed,
                             conns>>]_vars

\* C13 witness: a session is at its read, with nothing sent to it, while
\* another client's command holds the command lock.
C13_Witness ==
    \E c, d \in Clients :
        /\ pc[c] = "idle"
        /\ reply = NoReplies
        /\ pc[d] = "reading"
        /\ command_lock = [owner |-> d, waiters |-> <<>>]
        /\ stats.commands_processed = 0

\* C14, first part: a forwarded command issued after the connection to the
\* device has dropped is answered with an ERROR line.
C14_DropAnsweredWithError ==
    [][\A c \in Clients :
          (pc[c] \in DevicePcs /\ writer \in conns /\ ~link /\ pc'[c] = "idle")
              => reply'[c].kind = "error"]_vars

\* C15: a reconnect sequence sleeps the minimum delay before its first
\* connect attempt.
C15_SequenceStartsAtMinimum ==
    [][\A r \in ReconnectTasks :
          (pc[r] \in {"new", "disc_acq", "disc_closing"} /\ pc'[r] = "rc_sleep")
              => reconnect_delay' = MinReconnectDelay]_vars

RECURSIVE SumOver(_, _)
SumOver(f, S) ==
    IF S = {} THEN 0
    ELSE LET x == CHOOSE y \in S : TRUE IN f[x] + SumOver(f, S \ {x})

\* C16: commands_processed grows by one in each step in which a send_command
\* returns ok=true (its raw reply is written) and in no other step, and such
\* a step leaves commands_failed; so the counter is the number of commands
\* that have succeeded, never more than the commands forwarded and finished.
C16_SuccessCounted ==
    [][/\ stats'.commands_processed =
              stats.commands_processed
                  + Cardinality({c \in Clients : reply'[c].kind = "raw"})
       /\ (\E c \in Clients : reply'[c].kind = "raw")
              => /\ stats'.commands_failed = stats.commands_failed
                 /\ stats'.last_command_at
       /\ stats.commands_processed + stats.commands_failed
              + Cardinality({c \in Clients :
                                InSendCommand(c) \/ pc[c] = "cmd_acq"})
              <= SumOver(seq, Clients)]_vars

\* C16 witness: both clients have had one command forwarded with success and
\* the counter stands at two.
C16_Witness ==
    /\ stats.commands_processed = 2
    /\ stats.commands_failed = 0
    /\ \A c \in Clients : seq[c] = 1 /\ pc[c] = "idle"
    /\ \E c \in Clients : RawReply(c)

\* C17: every send_command that returns ok=false (an error line is written to
\* its client) has added one to commands_failed.
C17_FailureCounted ==
    [][\A c \in Clients :
          reply'[c].kind = "error"
              => stats'.commands_failed = stats.commands_failed + 1]_vars

C19_CloseLeavesOthers ==
    [][\A c \in Clients :
          (pc[c] # "closed" /\ pc'[c] = "closed") =>
              /\ \A t \in Tasks \ {c} : pc'[t] = pc[t]
              /\ \A d \in Clients \ {c} :
                    /\ command'[d] = command[d]
                    /\ pending_read'[d] = pending_read[d]
                    /\ seq'[d] = seq[d]
              /\ stats'.commands_processed = stats.commands_processed
              /\ stats'.commands_failed = stats.commands_failed
              /\ UNCHANGED <<command_lock, connection_lock, reader, writer,
                             connected, connecting, reconnect_delay, link,
                             buf, owed, conns>>]_vars

\* C19 witness: a client is sent the device's response to its command after
\* the other client, which had a session of its own, has gone.
C19_Witness ==
    \E c, d \in Clients :
        /\ pc[c] = "closed" /\ seq[c] = 1
        /\ RawReply(d)
        /\ reply[d].body = <<<<d, seq[d]>>>>

\* C20: start_server goes on to listen whatever its initial connect()
\* returned; a status reply reports the connected flag as it is, and a
\* command forwarded while not connected makes a connect attempt of its own.
C20_StartupFailureServes ==
    [][/\ (pc[Startup] \in ConnectPcs /\ pc'[Startup] \notin ConnectPcs)
              => (pc'[Startup] = "serving" /\ listening')
       /\ \A c \in Clients :
              /\ (pc[c] = "closed" /\ pc'[c] # "closed") => listening
              /\ reply'[c].kind = "status"
                    => reply'[c].body[1].connected = connected
              /\ (pc[c] = "idle" /\ command_lock'.owner = c /\ ~IsConnected)
                    => \/ pc'[c] = "conn_acq"
                       \/ /\ pc'[c] = "conn_open"
                          /\ stats'.connection_attempts =
                                 stats.connection_attempts + 1]_vars

\* C20 witness: the initial connect() failed and the device was never
\* reached; one client is told connected=false while the other client's
\* command is making its own connect attempt.
C20_Witness ==
    \E c, d \in Clients :
        /\ reply[c].kind = "status"
        /\ reply[c].body[1].connected = FALSE
        /\ pc[d] = "conn_open"
        /\ stats.successful_connections = 0
        /\ stats.last_error \in {E_ConnTimeout, E_Refused}

\* C22, second part: a connect() that returns false leaves no connection
\* handle behind and has recorded an error.
C22_FailedConnectLeavesNoHandle ==
    [][\A t \in Tasks :
          (/\ pc[t] \in {"conn_open", "conn_banner"}
           /\ pc'[t] \notin {"conn_open", "conn_banner"}
           /\ ~connected')
              => /\ writer' = None /\ reader' = None
                 /\ stats'.last_error # NoError]_vars

\* disconnect() run from its lock to its end by task t, nothing in between.
disconnect_run(s, t) ==
    LET a == disconnect_locked(
                 [s EXCEPT !.connection_lock = [owner |-> t, waiters |-> <<>>]],
                 t)
    IN  IF a.pc[t] = "disc_closing" THEN disconnect_finish(a, t) ELSE a

\* What disconnect() is about: the handle, the flags and the transports.
LinkState(s) ==
    <<s.reader, s.writer, s.connected, s.stats.connected, s.conns, s.link,
      s.buf, s.owed, s.stats.last_error, s.reconnect_delay, s.connecting>>

\* C23: from any reachable state disconnect() ends with the handle cleared,
\* the flags false and the transport closed; a second call right after it
\* leaves that state as it is, and so does a call on a link that is already
\* disconnected.
C23_DisconnectIdempotent ==
    \A r \in ReconnectTasks :
        LET once == disconnect_run(St, r)
            twice == disconnect_run(once, r)
        IN  /\ once.inb /\ twice.inb
            /\ once.reader = None /\ once.writer = None
            /\ ~once.connected /\ ~once.stats.connected
            /\ writer # None => writer \notin once.conns
            /\ LinkState(twice) = LinkState(once)
            /\ (writer = None /\ ~connected)
                  => LinkState(once) = LinkState(St)

\* C23 witness: a reconnect task has run disconnect() on a link that was
\* never connected and sleeps before its first attempt.
C23_Witness ==
    \E r \in ReconnectTasks :
        /\ pc[r] = "rc_sleep"
        /\ writer = None /\ ~connected
        /\ stats.connection_attempts = 1
        /\ stats.successful_connections = 0

\* C24: at most one reconnect() call is in its disconnect/connect loop.
C24_SingleReconnect ==
    Cardinality({r \in ReconnectTasks : pc[r] \notin {"free", "new"}}) <= 1

\* C25: while a command is between its write and the end of its read, no
\* step closes, clears or replaces the connection handle.
C25_NoDisconnectMidCommand ==
    [][(\E c \in Clients : pc[c] \in {"settle", "reading"})
          => (writer' = writer /\ conns' = conns)]_vars

\* C26: a command whose connection was closed by disconnect() while it was
\* reading its response returns ok=false.
C26_DisconnectFailsCommand ==
    [][\A c \in Clients :
          (pc[c] = "reading" /\ pending_read[c] \notin conns /\ pc'[c] = "idle")
              => reply'[c].kind = "error"]_vars

\* C27: a command that waited for the command lock goes on to the device
\* only over a handle that has not been closed.
C27_WaiterSeesNewState ==
    [][\A c \in Clients :
          (pc[c] = "cmd_acq" /\ pc'[c] \in DevicePcs) => writer' \in conns']_vars

\* C28: at most one task is inside a connect attempt (open_connection or the
\* banner read), it holds the connection lock and the connecting flag is set.
C28_OneConnectAttempt ==
    /\ Cardinality({t \in Tasks : pc[t] \in {"conn_open", "conn_banner"}}) <= 1
    /\ \A t \in Tasks :
          pc[t] \in {"conn_open", "conn_banner"}
              => (connection_lock.owner = t /\ connecting)
    /\ connecting => \E t \in Tasks : pc[t] \in {"conn_open", "conn_banner"}

\* C28 witness: a reconnect loop is inside its attempt while a client's
\* inline connect waits for the connection lock.
C28_Witness ==
    \E r \in ReconnectTasks, c \in Clients :
        /\ pc[r] \in {"conn_open", "conn_banner"}
        /\ pc[c] = "conn_acq"
        /\ connection_lock.waiters = <<c>>

\* C29: a connect() call that had to wait for another call's attempt does
\* not start an attempt of its own.
C29_LateConnectReturnsFalse ==
    [][\A t \in Tasks :
          (pc[t] = "conn_acq" /\ pc'[t] # "conn_acq")
              => pc'[t] # "conn_open"]_vars

\* C30: at most one transport to the device is open and not closed.
C30_OneLiveConnection == Cardinality(conns) <= 1

\* C21: once shutdown() has returned the link is disconnected, the server
\* has stopped, and no client session or reconnect task is left or new.
C21_ShutdownLeavesNothing ==
    pc[ShutdownTask] = "stopped" =>
        /\ ~connected /\ writer = None
        /\ ~listening
        /\ \A c \in Clients : pc[c] = "closed"
        /\ \A r \in ReconnectTasks : pc[r] = "free"

\* C31: disconnect() leaves no partial state to be seen: wherever the
\* connected flag is true the stored handle is one that has not been closed.
C31_NoPartialDisconnect ==
    connected => (writer # None /\ writer \in conns)

\* The step in which client c's command is written to the device.
Wrote(c) == pc[c] \in {"drain", "drain_again"} /\ pc'[c] = "settle"

\* C32: a command is written by the owner of the command lock, which got the
\* lock first-come first-served and keeps it until its reply is sent, one
\* write to a hold; the token written is the client's latest command, and a
\* client's next command is taken only after the reply to the one before.
C32_CommandsInOrder ==
    [][\A c \in Clients :
          /\ Wrote(c) =>
                /\ command_lock.owner = c /\ command_lock'.owner = c
                /\ \A d \in Clients \ {c} : pc[d] \notin DevicePcs
                /\ owed' \subseteq owed \cup {<<c, seq[c]>>}
                /\ seq'[c] = seq[c]
          /\ pc[c] \in {"settle", "reading"}
                => pc'[c] \in {"settle", "reading", "idle"}
          /\ (pc[c] \in DevicePcs \cup ConnectPcs /\ pc'[c] \notin DevicePcs \cup ConnectPcs)
                => /\ pc'[c] = "idle"
                   /\ reply'[c].kind \in {"raw", "error"}
                   /\ command_lock' = Release(command_lock)
          /\ seq'[c] # seq[c]
                => /\ pc[c] = "idle" /\ seq'[c] = seq[c] + 1
                   /\ pc'[c] \in {"cmd_acq", "idle"} \cup DevicePcs \cup ConnectPcs
          /\ (pc[c] = "cmd_acq" /\ pc'[c] # "cmd_acq") => command_lock.owner = c
          /\ command_lock'.waiters # command_lock.waiters
                => \/ /\ command_lock.waiters # <<>>
                      /\ command_lock'.waiters = Tail(command_lock.waiters)
                   \/ \E d \in Clients :
                         /\ pc[d] = "idle" /\ pc'[d] = "cmd_acq"
                         /\ command_lock'.waiters = Append(command_lock.waiters, d)]_vars

\* C32 witness: a client's second command has been written, after the reply
\* to its first, while the other client's command waits for the lock.
C32_Witness ==
    \E c, d \in Clients :
        /\ seq[c] = 2 /\ pc[c] = "settle" /\ <<c, 2>> \in owed
        /\ stats.commands_processed + stats.commands_failed >= 1
        /\ pc[d] = "cmd_acq" /\ command_lock.waiters = <<d>>

\* C33: a connect() call returns false only from an attempt of its own, which
\* added one to connection_attempts when it began and has set last_error; an
\* error line for a failed inline connect follows such an attempt, and every
\* other error line comes with one more commands_failed and its text in
\* last_error.
C33_NoSilentFailure ==
    [][/\ \A t \in Tasks :
            /\ (pc[t] # "conn_open" /\ pc'[t] = "conn_open")
                  => stats'.connection_attempts = stats.connection_attempts + 1
            /\ (pc[t] \in {"conn_open", "conn_banner"}
                /\ pc'[t] \notin {"conn_open", "conn_banner"} /\ ~connected')
                  => /\ stats'.last_error \in {E_ConnTimeout, E_Refused, E_ConnLost}
                     /\ stats.connection_attempts >= 1
       /\ (StartServer \/ \E t \in Tasks : ConnectLockGranted(t))
             => \A t \in Tasks :
                   pc'[t] # pc[t] =>
                       \/ pc'[t] \in {"conn_acq", "conn_open"}
                       \/ connected
       /\ \A r \in ReconnectTasks :
             ReconnectSleepDone(r)
                 => (pc'[r] \in {"conn_acq", "conn_open"} \/ connected)
       /\ \A c \in Clients :
             reply'[c].kind = "error" =>
                 \/ /\ reply'[c].body = E_NotConnected
                    /\ pc[c] \in {"conn_open", "conn_banner"}
                 \/ /\ reply'[c].body # E_NotConnected
                    /\ stats'.commands_failed = stats.commands_failed + 1
                    /\ stats'.last_error = reply'[c].body]_vars

\* C33 witness: a client is sent the error of a write or read that failed on
\* a dropped link; the failure is counted and its text is the last error.
C33_Witness ==
    \E c \in Clients :
        /\ reply[c] = [kind |-> "error", body |-> E_ConnLost]
        /\ stats.commands_failed = 1
        /\ stats.last_error = E_ConnLost
        /\ stats.successful_connections >= 1
        /\ ~link

\* C34: no step lowers connection_attempts, successful_connections,
\* commands_processed or commands_failed, and the successful connections are
\* never more than the attempts.
C34_CountersMonotonic ==
    [][/\ stats'.connection_attempts >= stats.connection_attempts
       /\ stats'.successful_connections >= stats.successful_connections
       /\ stats'.commands_processed >= stats.commands_processed
       /\ stats'.commands_failed >= stats.commands_failed
       /\ stats.successful_connections <= stats.connection_attempts
       /\ stats'.successful_connections <= stats'.connection_attempts]_vars

\* C34 witness: every counter has moved: two attempts, both successful, a
\* command processed and a command failed.
C34_Witness ==
    /\ stats.connection_attempts = 2
    /\ stats.successful_connections = 2
    /\ stats.commands_processed >= 1
    /\ stats.commands_failed >= 1

\* The positions of a reconnect task inside its leading disconnect().
DisconnectPcs == {"new", "disc_acq", "disc_closing"}

\* C35: a reconnect task first runs disconnect() to its end, whatever the
\* state of the link, and only then sleeps; a connect() that fails sends it
\* back to sleep; it returns only from its connect(), in the step in which
\* that succeeds, and the connected flag is true when it returns.
C35_ReconnectReturnsConnected ==
    [][\A r \in ReconnectTasks :
          /\ pc[r] = "new" => pc'[r] \in DisconnectPcs \cup {"rc_sleep"}
          /\ (pc[r] \in DisconnectPcs /\ pc'[r] \notin DisconnectPcs)
                => /\ pc'[r] = "rc_sleep"
                   /\ writer' = None /\ reader' = None /\ ~connected'
                   /\ writer # None => writer \notin conns'
          /\ (pc[r] # "free" /\ pc'[r] = "free")
                => /\ connected' /\ writer' # None
                   /\ pc[r] \in {"rc_sleep"} \cup ConnectPcs
          /\ (pc[r] \in {"rc_sleep"} \cup ConnectPcs /\ pc'[r] # pc[r]
              /\ pc'[r] \notin ConnectPcs)
                => IF connected' THEN pc'[r] = "free"
                                 ELSE pc'[r] = "rc_sleep"]_vars

\* C35 witness: the first reconnect task has returned, the link connected,
\* while a second reconnect task sleeps inside its loop and a client has
\* had a command forwarded.
C35_Witness ==
    \E r, q \in ReconnectTasks :
        /\ r < q
        /\ pc[r] = "free" /\ pc[q] = "rc_sleep"
        /\ connected
        /\ stats.successful_connections >= 1
        /\ \E c \in Clients : seq[c] = 1 /\ pc[c] = "idle"

\* C36: stats.connected is the connected flag in every state, and a status
\* reply carries that value.
C36_StatsConnectedIsFlag ==
    /\ stats.connected = connected
    /\ \A c \in Clients :
          reply[c].kind = "status" => reply[c].body[1].connected = connected

\* C36 witness: after a reconnect a status reply reports connected=true, and
\* the flag is true.
C36_Witness ==
    \E c \in Clients :
        /\ reply[c].kind = "status"
        /\ reply[c].body[1].connected
        /\ connected
        /\ stats.successful_connections = 2

\* C37: the reconnect delay is 1, 2, 4, 8, 16 or 30 in every state.
C37_DelayInRange ==
    /\ reconnect_delay \in {1, 2, 4, 8, 16, 30}
    /\ MinReconnectDelay <= reconnect_delay
    /\ reconnect_delay <= MaxReconnectDelay

\* C37 witness: two reconnect loops are running and, after a failure at the
\* maximum delay, the delay is still 30.
C37_Witness ==
    /\ reconnect_delay = MaxReconnectDelay
    /\ stats.connection_attempts = 7
    /\ Cardinality({r \in ReconnectTasks : pc[r] = "rc_sleep"}) = 2

\* C38, second part: every send_command call eventually returns: its client
\* is sent a reply and is back at its read.
C38_EveryCommandReturns ==
    \A c \in Clients :
        (pc[c] \in {"cmd_acq"} \cup ConnectPcs \cup DevicePcs) ~> (pc[c] = "idle")

====
